---- MODULE Spec2Model ----
(***************************************************************************)
(* A model of proc-modules (src/src/lib.rs): Module::parse,                *)
(* Module::parse_from, Module::all and the ModuleIter iterator.            *)
(*                                                                         *)
(* Text is modelled as a sequence of one-character strings, so that        *)
(* splitting, comparing and number parsing are computed character by       *)
(* character as the code does.  A u64 is modelled by its canonical decimal *)
(* digits (a sequence of 0..9 without leading zeros, <<0>> for zero):      *)
(* the model checker's integers are 32 bits wide, the program's 64.        *)
(***************************************************************************)
EXTENDS Integers, Sequences, FiniteSets, TLC

VARIABLES
    input,      \* ghost: the fields the line given to Module::parse was built from
    line,       \* the argument of Module::parse
    result,     \* what Module::parse returned
    ppc,        \* position of the caller of Module::parse
    lines,      \* the argument of Module::parse_from
    idx,        \* how many lines parse_from's collect has pulled
    parsed,     \* how many times parse_from has called Module::parse
    acc,        \* the Vec that collect is filling (parse_from and all)
    ret,        \* what parse_from or all returned
    rawlines,   \* ghost: the lines, terminators included, the file was built from
    file,       \* the content of /proc/modules
    opened,     \* "unopened", "open" or "failed": ModuleIter::new
    pos,        \* how many characters of the file the BufReader has consumed
    buffer,     \* ModuleIter.buffer
    lastRead,   \* the result of the last read_line
    item,       \* what the last ModuleIter::next returned
    calls,      \* number of calls of ModuleIter::next
    reads,      \* number of calls of read_line
    items,      \* ghost: everything ModuleIter::next has returned, in order
    ended       \* ghost: some call of ModuleIter::next has returned None

vars == <<input, line, result, ppc, lines, idx, parsed, acc, ret, rawlines, file,
          opened, pos, buffer, lastRead, item, calls, reads, items, ended>>

parseVars == <<input, line, result, ppc>>
batchVars == <<lines, idx, parsed>>
collectVars == <<acc, ret>>
iterVars == <<rawlines, file, opened, pos, buffer, lastRead, item, calls, reads,
              items, ended>>

(***************************************************************************)
(* Bounds of the model.                                                    *)
(***************************************************************************)
MaxZeros == 1       \* leading zeros put before a size
MaxPieces == 2      \* comma separated pieces of a dependents field
MaxTrail == 1       \* fields after the dependents field
MaxBatch == 3       \* lines given to parse_from
MaxLines == 2       \* lines of the file
MaxExtraCalls == 2  \* calls of ModuleIter::next beyond those that drain the file

(***************************************************************************)
(* Text helpers.                                                           *)
(***************************************************************************)
SP == " "
NL == "\n"
CR == "\r"
COMMA == ","
DASH == <<"-">>

SeqsUpTo(S, n) == UNION {[1..k -> S] : k \in 0..n}

RECURSIVE Repeat(_, _)
Repeat(c, n) == IF n = 0 THEN <<>> ELSE <<c>> \o Repeat(c, n - 1)

RECURSIVE JoinWith(_, _)
JoinWith(ss, sep) ==
    IF Len(ss) = 0 THEN <<>>
    ELSE IF Len(ss) = 1 THEN ss[1]
    ELSE ss[1] \o <<sep>> \o JoinWith(Tail(ss), sep)

RECURSIVE Concat(_)
Concat(ss) == IF Len(ss) = 0 THEN <<>> ELSE ss[1] \o Concat(Tail(ss))

(***************************************************************************)
(* str::split(char): the pieces between the separators; n separators give  *)
(* n + 1 pieces, so the empty text gives one empty piece.                  *)
(***************************************************************************)
RECURSIVE SplitFrom(_, _, _, _, _)
SplitFrom(s, sep, i, cur, out) ==
    IF i > Len(s) THEN Append(out, cur)
    ELSE IF s[i] = sep THEN SplitFrom(s, sep, i + 1, <<>>, Append(out, cur))
    ELSE SplitFrom(s, sep, i + 1, Append(cur, s[i]), out)

Split(s, sep) == SplitFrom(s, sep, 1, <<>>, <<>>)

(* Iterator::next and Iterator::nth on the pieces that are left. *)
NoPiece == [some |-> FALSE, val |-> <<>>, rest |-> <<>>]

IterNextPiece(parts) ==
    IF Len(parts) = 0 THEN NoPiece
    ELSE [some |-> TRUE, val |-> Head(parts), rest |-> Tail(parts)]

IterNthPiece(parts, n) ==
    IF Len(parts) <= n THEN NoPiece
    ELSE [some |-> TRUE, val |-> parts[n + 1], rest |-> SubSeq(parts, n + 2, Len(parts))]

(***************************************************************************)
(* str::parse::<u64>: an optional "+", then one or more decimal digits,    *)
(* accumulated as result * 10 + digit with both steps checked against      *)
(* u64::MAX.                                                               *)
(***************************************************************************)
U64_MAX == <<1,8,4,4,6,7,4,4,0,7,3,7,0,9,5,5,1,6,1,5>>

DigitChars == {"0", "1", "2", "3", "4", "5", "6", "7", "8", "9"}

DigitVal(c) ==
    CASE c = "0" -> 0 [] c = "1" -> 1 [] c = "2" -> 2 [] c = "3" -> 3 [] c = "4" -> 4
      [] c = "5" -> 5 [] c = "6" -> 6 [] c = "7" -> 7 [] c = "8" -> 8 [] c = "9" -> 9

DigitChar(d) == <<"0", "1", "2", "3", "4", "5", "6", "7", "8", "9">>[d + 1]

RECURSIVE LexLE(_, _)
LexLE(a, b) ==
    IF Len(a) = 0 THEN TRUE
    ELSE IF a[1] < b[1] THEN TRUE
    ELSE IF a[1] > b[1] THEN FALSE
    ELSE LexLE(Tail(a), Tail(b))

\* a variant that lets the accumulation run past u64::MAX
FitsU64Unchecked(v) == TRUE

FitsU64(v) == Len(v) < Len(U64_MAX) \/ (Len(v) = Len(U64_MAX) /\ LexLE(v, U64_MAX))

\* result.checked_mul(10) then .checked_add(d), on canonical digits
MulAdd(v, d) == IF v = <<0>> THEN <<d>> ELSE Append(v, d)

NoNum == [ok |-> FALSE, val |-> <<>>]

RECURSIVE ParseDigits(_, _, _)
ParseDigits(s, i, v) ==
    IF i > Len(s) THEN [ok |-> TRUE, val |-> v]
    ELSE IF s[i] \notin DigitChars THEN NoNum
    ELSE LET w == MulAdd(v, DigitVal(s[i]))
         IN IF FitsU64(w) THEN ParseDigits(s, i + 1, w) ELSE NoNum

ParseU64(s) ==
    IF Len(s) = 0 THEN NoNum
    ELSE IF Len(s) = 1 /\ s[1] \in {"+", "-"} THEN NoNum
    ELSE IF s[1] = "+" THEN ParseDigits(s, 2, <<0>>)
    ELSE ParseDigits(s, 1, <<0>>)

(***************************************************************************)
(* Module::parse.                                                          *)
(***************************************************************************)
NoModule == [module |-> <<>>, size |-> <<>>, used_by |-> <<>>]
OkM(m) == [ok |-> TRUE, val |-> m, err |-> ""]
ErrM(e) == [ok |-> FALSE, val |-> NoModule, err |-> e]

ERR_NAME == "module name not found"
ERR_SIZE == "size not found"
ERR_USED_BY == "used_by not found"
ERR_NUMBER == "module size is not a number"

NonEmpty(x) == Len(x) > 0

\* a variant that keeps the empty pieces
UsedByKeepEmpty(used_by) ==
    IF used_by = DASH THEN <<>>
    ELSE Split(used_by, COMMA)

UsedBy(used_by) ==
    IF used_by = DASH THEN <<>>
    ELSE SelectSeq(Split(used_by, COMMA), NonEmpty)

\* a variant that converts the size as soon as it is found
ParseSizeFirst(l) ==
    LET parts == Split(l, SP)
        name == IterNextPiece(parts)
    IN IF ~name.some THEN ErrM(ERR_NAME)
       ELSE LET size == IterNextPiece(name.rest)
            IN IF ~size.some THEN ErrM(ERR_SIZE)
               ELSE LET n == ParseU64(size.val)
                    IN IF ~n.ok THEN ErrM(ERR_NUMBER)
                       ELSE LET used_by == IterNthPiece(size.rest, 1)
                            IN IF ~used_by.some THEN ErrM(ERR_USED_BY)
                               ELSE OkM([module |-> name.val,
                                         size |-> n.val,
                                         used_by |-> UsedBy(used_by.val)])

Parse(l) ==
    LET parts == Split(l, SP)
        name == IterNextPiece(parts)
    IN IF ~name.some THEN ErrM(ERR_NAME)
       ELSE LET size == IterNextPiece(name.rest)
            IN IF ~size.some THEN ErrM(ERR_SIZE)
               ELSE LET used_by == IterNthPiece(size.rest, 1)
                    IN IF ~used_by.some THEN ErrM(ERR_USED_BY)
                       ELSE LET n == ParseU64(size.val)
                            IN IF ~n.ok THEN ErrM(ERR_NUMBER)
                               ELSE OkM([module |-> name.val,
                                         size |-> n.val,
                                         used_by |-> UsedBy(used_by.val)])

(***************************************************************************)
(* The lines given to Module::parse.  A line is built from its fields: a   *)
(* name, a size (a u64 value written with optional "+" and leading zeros,  *)
(* or a text that is no u64), a use count, a dependents field (pieces      *)
(* joined by commas) and trailing fields, joined by single spaces.  No     *)
(* field holds a space and no piece holds a comma.                         *)
(***************************************************************************)
Names == {<<>>, <<"a">>, <<"a", "b">>}

SizeValues == {<<0>>, <<7>>, <<4, 2>>, U64_MAX}

FormatSize(v, z, p) ==
    (IF p THEN <<"+">> ELSE <<>>) \o Repeat("0", z) \o [i \in 1..Len(v) |-> DigitChar(v[i])]

TwoPow64Text == <<"1","8","4","4","6","7","4","4","0","7","3","7","0","9","5","5","1","6","1","6">>

InvalidSizes ==
    {<<>>, <<"a", "b", "c">>, <<"-", "1">>, <<"1", "a">>, <<"+">>, TwoPow64Text,
     <<"1">> \o Repeat("0", Len(U64_MAX))}

SizeSpecs ==
    {[valid |-> TRUE, val |-> v, text |-> FormatSize(v, z, p)] :
        v \in SizeValues, z \in 0..MaxZeros, p \in BOOLEAN}
    \cup {[valid |-> FALSE, val |-> <<>>, text |-> t] : t \in InvalidSizes}

Counts == {<<"0">>, <<"x">>}

PieceTokens == {<<>>, <<"a">>, <<"-">>, <<"-", NL>>}

DepSpecs == {[pieces |-> ps, text |-> JoinWith(ps, COMMA)] : ps \in SeqsUpTo(PieceTokens, MaxPieces)}

TrailTokens == {<<>>, <<"L">>}

NoSize == [valid |-> FALSE, val |-> <<>>, text |-> <<>>]
NoDep == [pieces |-> <<>>, text |-> <<>>]

MkInput(n, name, size, cnt, dep, trail) ==
    [n |-> n, name |-> name, size |-> size, cnt |-> cnt, dep |-> dep, trail |-> trail]

Inputs ==
    {MkInput(0, <<>>, NoSize, <<>>, NoDep, <<>>)}
    \cup {MkInput(1, nm, NoSize, <<>>, NoDep, <<>>) : nm \in Names}
    \cup {MkInput(2, nm, sz, <<>>, NoDep, <<>>) : nm \in Names, sz \in SizeSpecs}
    \cup {MkInput(3, nm, sz, c, NoDep, <<>>) : nm \in Names, sz \in SizeSpecs, c \in Counts}
    \cup {MkInput(4 + Len(t), nm, sz, c, d, t) :
            nm \in Names, sz \in SizeSpecs, c \in Counts, d \in DepSpecs,
            t \in SeqsUpTo(TrailTokens, MaxTrail)}

Fields(in) == SubSeq(<<in.name, in.size.text, in.cnt, in.dep.text>> \o in.trail, 1, in.n)

Render(in) == JoinWith(Fields(in), SP)

(***************************************************************************)
(* Values of the variables a specification does not use.                   *)
(***************************************************************************)
NoRead == [ok |-> TRUE, n |-> 0]
NoItem == [some |-> FALSE, res |-> ErrM("")]
NoRet == [set |-> FALSE, ok |-> FALSE, val |-> <<>>, err |-> ""]

IdleParse ==
    /\ input = MkInput(0, <<>>, NoSize, <<>>, NoDep, <<>>)
    /\ line = <<>>
    /\ result = ErrM("")
    /\ ppc = "idle"

IdleBatch ==
    /\ lines = <<>>
    /\ idx = 0
    /\ parsed = 0

IdleCollect ==
    /\ acc = <<>>
    /\ ret = NoRet

IdleIter ==
    /\ rawlines = <<>>
    /\ file = <<>>
    /\ opened = "unopened"
    /\ pos = 0
    /\ buffer = <<>>
    /\ lastRead = NoRead
    /\ item = NoItem
    /\ calls = 0
    /\ reads = 0
    /\ items = <<>>
    /\ ended = FALSE

(***************************************************************************)
(* SpecParse: one call of Module::parse on each line.                      *)
(***************************************************************************)
InitParse ==
    /\ input \in Inputs
    /\ line = Render(input)
    /\ result = ErrM("")
    /\ ppc = "call"
    /\ IdleBatch /\ IdleCollect /\ IdleIter

ParseCall ==
    /\ ppc = "call"
    /\ result' = Parse(line)
    /\ ppc' = "done"
    /\ UNCHANGED <<input, line, batchVars, collectVars, iterVars>>

NextParse == ParseCall

SpecParse == InitParse /\ [][NextParse]_vars

ParseDone == ppc = "done"

\* C1: every line Module::parse accepts has at least four fields and gives
\* exactly name = field 0, size = the value field 1 was written from, and
\* dependents = the empty sequence when field 3 is "-", otherwise the pieces
\* field 3 was joined from, in order, without the empty ones.  The right-hand
\* sides read fields 0, 1 and 3 only, whatever field 2 and the trailing
\* fields are.
C1_ParseExact ==
    (ParseDone /\ result.ok) =>
        /\ input.n >= 4
        /\ result.val.module = input.name
        /\ input.size.valid
        /\ result.val.size = input.size.val
        /\ result.val.used_by =
              IF input.dep.text = DASH THEN <<>>
              ELSE SelectSeq(input.dep.pieces, NonEmpty)
        /\ \A i \in 1..Len(result.val.used_by) : result.val.used_by[i] # <<>>

C1_Witness ==
    /\ ParseDone /\ result.ok
    /\ input.dep.pieces = << <<"a">>, <<>> >>
    /\ input.size.text = <<"+", "0", "7">>
    /\ input.trail = << <<"L">> >>
    /\ result.val = [module |-> input.name, size |-> <<7>>, used_by |-> << <<"a">> >>]

\* C2: every record Module::parse returns has a non-empty name.
C2_NameNonEmpty == (ParseDone /\ result.ok) => Len(result.val.module) > 0

\* C3: the empty line fails with the missing-name error.
C3_EmptyLineMissingName == (ParseDone /\ line = <<>>) => result = ErrM(ERR_NAME)

\* C4: a line of exactly one field fails with the missing-size error, a line
\* of exactly two or three fields with the missing-dependents error.
C4_MissingFieldOrder ==
    ParseDone =>
        /\ input.n = 1 => result = ErrM(ERR_SIZE)
        /\ input.n \in {2, 3} => result = ErrM(ERR_USED_BY)

C4_Witness ==
    /\ ParseDone
    /\ input.n = 2
    /\ input.size.text = <<"a", "b", "c">>
    /\ result = ErrM(ERR_USED_BY)

\* C5 as stated: a line whose size field is present and is no u64 fails with
\* the invalid-number error, whatever fields follow or are absent.
C5_InvalidSizeAlways ==
    (ParseDone /\ input.n >= 2 /\ ~input.size.valid) => result = ErrM(ERR_NUMBER)

\* C5 amended: a line whose size field is no u64 and whose dependents field
\* (field 3) is present fails with the invalid-number error; when field 3 is
\* absent it fails with the missing-dependents error instead.
C5_InvalidSizeWithDependents ==
    (ParseDone /\ input.n >= 2 /\ ~input.size.valid) =>
        result = IF input.n >= 4 THEN ErrM(ERR_NUMBER) ELSE ErrM(ERR_USED_BY)

C5_Witness ==
    /\ ParseDone
    /\ input.n >= 4
    /\ input.size.text = TwoPow64Text
    /\ result = ErrM(ERR_NUMBER)

(***************************************************************************)
(* SpecBatch: Module::parse_from, lines.map(Self::parse).collect() into a  *)
(* Result: collect pulls one mapped item at a time, pushes an Ok value and *)
(* stops at the first Err, dropping what it has pushed.                    *)
(***************************************************************************)
OkV(v) == [set |-> TRUE, ok |-> TRUE, val |-> v, err |-> ""]
ErrV(e) == [set |-> TRUE, ok |-> FALSE, val |-> <<>>, err |-> e]

ValidSize(v) == [valid |-> TRUE, val |-> v, text |-> FormatSize(v, 0, FALSE)]
DepOf(ps) == [pieces |-> ps, text |-> JoinWith(ps, COMMA)]

BatchLines ==
    {Render(MkInput(4, <<"a">>, ValidSize(<<7>>), <<"0">>, DepOf(<< <<"-">> >>), <<>>)),
     Render(MkInput(5, <<"a", "b">>, ValidSize(<<4, 2>>), <<"x">>, DepOf(<< <<"a">>, <<>> >>),
                    << <<"L">> >>)),
     Render(MkInput(1, <<"a">>, NoSize, <<>>, NoDep, <<>>)),
     Render(MkInput(2, <<"a">>, ValidSize(<<7>>), <<>>, NoDep, <<>>)),
     Render(MkInput(4, <<"a">>, [valid |-> FALSE, val |-> <<>>, text |-> <<"a", "b", "c">>],
                    <<"0">>, DepOf(<< <<"-">> >>), <<>>))}

InitBatch ==
    /\ lines \in SeqsUpTo(BatchLines, MaxBatch)
    /\ idx = 0
    /\ parsed = 0
    /\ acc = <<>>
    /\ ret = NoRet
    /\ IdleParse /\ IdleIter

\* a variant that skips the lines that do not parse
BatchPullSkip ==
    /\ ~ret.set
    /\ idx < Len(lines)
    /\ idx' = idx + 1
    /\ parsed' = parsed + 1
    /\ LET r == Parse(lines[idx + 1])
       IN acc' = IF r.ok THEN Append(acc, r.val) ELSE acc
    /\ UNCHANGED <<lines, ret, parseVars, iterVars>>

BatchPull ==
    /\ ~ret.set
    /\ idx < Len(lines)
    /\ idx' = idx + 1
    /\ parsed' = parsed + 1
    /\ LET r == Parse(lines[idx + 1])
       IN IF r.ok
          THEN acc' = Append(acc, r.val) /\ ret' = ret
          ELSE acc' = <<>> /\ ret' = ErrV(r.err)
    /\ UNCHANGED <<lines, parseVars, iterVars>>

BatchEnd ==
    /\ ~ret.set
    /\ idx = Len(lines)
    /\ ret' = OkV(acc)
    /\ acc' = <<>>
    /\ UNCHANGED <<lines, idx, parsed, parseVars, iterVars>>

NextBatch == BatchPull \/ BatchEnd

SpecBatch == InitBatch /\ [][NextBatch]_vars

BadLines == {k \in 1..Len(lines) : ~Parse(lines[k]).ok}

FirstBad == CHOOSE k \in BadLines : \A j \in BadLines : k <= j

\* C6: when every line parses, parse_from returns the records in input
\* order; when line k is the first that does not, it returns the error of
\* Module::parse for line k, no records, and has parsed exactly k lines.
C6_ParseFromFailFast ==
    ret.set =>
        IF BadLines = {}
        THEN /\ ret.ok
             /\ ret.val = [k \in 1..Len(lines) |-> Parse(lines[k]).val]
             /\ parsed = Len(lines)
        ELSE /\ ~ret.ok
             /\ ret.err = Parse(lines[FirstBad]).err
             /\ ret.val = <<>>
             /\ parsed = FirstBad

C6_Witness ==
    /\ ret.set
    /\ Len(lines) = 3
    /\ Parse(lines[1]).ok
    /\ Parse(lines[2]).err = ERR_USED_BY
    /\ Parse(lines[3]).err = ERR_NUMBER
    /\ ret = ErrV(ERR_USED_BY)
    /\ parsed = 2

(***************************************************************************)
(* The file behind ModuleIter: lines ended by "\n", the last one possibly  *)
(* without its terminator.                                                 *)
(***************************************************************************)
IterBodies ==
    {Render(MkInput(4, <<"a">>, ValidSize(<<7>>), <<"0">>, DepOf(<< <<"-">> >>), <<>>)),
     Render(MkInput(5, <<"a", "b">>, ValidSize(<<4, 2>>), <<"x">>, DepOf(<< <<"a">>, <<>> >>),
                    << <<"L">> >>)),
     Render(MkInput(4, <<"a">>, [valid |-> FALSE, val |-> <<>>, text |-> <<"a", "b", "c">>],
                    <<"0">>, DepOf(<< <<"-">> >>), <<>>)),
     <<>>}

Terminated(bs, term) ==
    [i \in 1..Len(bs) |-> IF i < Len(bs) \/ term THEN bs[i] \o <<NL>> ELSE bs[i]]

RawFiles ==
    {rl \in {Terminated(bs, term) : bs \in SeqsUpTo(IterBodies, MaxLines), term \in BOOLEAN} :
        Len(rl) = 0 \/ rl[Len(rl)] # <<>>}

CallCap == MaxLines + 1 + MaxExtraCalls

ERR_OPEN == "open failed"
ERR_IO == "read failed"

(* BufRead::read_line: the characters up to and including the next "\n", or
   up to the end of the file. *)
RECURSIVE LineEnd(_, _)
LineEnd(f, i) ==
    IF i > Len(f) THEN Len(f)
    ELSE IF f[i] = NL THEN i
    ELSE LineEnd(f, i + 1)

ReadLine(f, p) == SubSeq(f, p + 1, LineEnd(f, p + 1))

(* str::lines: the text between the "\n", a final empty piece dropped and a
   "\r" before the "\n" removed. *)
StripCR(l) == IF Len(l) > 0 /\ l[Len(l)] = CR THEN SubSeq(l, 1, Len(l) - 1) ELSE l

StrLines(s) ==
    LET ps == Split(s, NL)
        qs == IF ps[Len(ps)] = <<>> THEN SubSeq(ps, 1, Len(ps) - 1) ELSE ps
    IN [i \in 1..Len(qs) |-> StripCR(qs[i])]

(***************************************************************************)
(* ModuleIter::new and ModuleIter::next.                                   *)
(***************************************************************************)
None == [some |-> FALSE, res |-> ErrM("")]
Some(r) == [some |-> TRUE, res |-> r]

ReadOk(n) == [ok |-> TRUE, n |-> n]
ReadErr == [ok |-> FALSE, n |-> 0]

\* a variant that ends the sequence on a read error
NextItemStopOnError(read, buf) ==
    IF read.ok /\ read.n = 0 THEN None
    ELSE IF read.ok THEN Some(Parse(buf))
    ELSE None

\* the match of ModuleIter::next on the result of read_line
NextItem(read, buf) ==
    IF read.ok /\ read.n = 0 THEN None
    ELSE IF read.ok THEN Some(Parse(buf))
    ELSE Some(ErrM(ERR_IO))

InitFile ==
    /\ rawlines \in RawFiles
    /\ file = Concat(rawlines)
    /\ opened = "unopened"
    /\ pos = 0
    /\ buffer = <<>>
    /\ lastRead = NoRead
    /\ item = NoItem
    /\ calls = 0
    /\ reads = 0
    /\ items = <<>>
    /\ ended = FALSE

\* File::open succeeds or fails
Open(ok) ==
    /\ opened = "unopened"
    /\ opened' = IF ok THEN "open" ELSE "failed"
    /\ UNCHANGED <<rawlines, file, pos, buffer, lastRead, item, calls, reads, items, ended>>

\* one call of next: the buffer is cleared and read_line either fills it or
\* fails, leaving the reader where it was
IterStep ==
    /\ opened = "open"
    /\ calls < CallCap
    /\ \/ /\ buffer' = ReadLine(file, pos)
          /\ pos' = pos + Len(buffer')
          /\ lastRead' = ReadOk(Len(buffer'))
       \/ /\ buffer' = <<>>
          /\ pos' = pos
          /\ lastRead' = ReadErr
    /\ reads' = reads + 1
    /\ calls' = calls + 1
    /\ item' = NextItem(lastRead', buffer')
    /\ items' = Append(items, item')
    /\ ended' = (ended \/ ~item'.some)
    /\ UNCHANGED <<rawlines, file, opened>>

(***************************************************************************)
(* SpecIter: a caller that constructs a ModuleIter and calls next at will. *)
(***************************************************************************)
InitIter == InitFile /\ IdleParse /\ IdleBatch /\ IdleCollect

IterNew ==
    /\ \E ok \in BOOLEAN : Open(ok)
    /\ UNCHANGED <<parseVars, batchVars, collectVars>>

IterNext ==
    /\ IterStep
    /\ UNCHANGED <<parseVars, batchVars, collectVars>>

NextIter == IterNew \/ IterNext

SpecIter == InitIter /\ [][NextIter]_vars

IsIoError(it) == it.some /\ ~it.res.ok /\ it.res.err = ERR_IO
IsParseError(it) == it.some /\ ~it.res.ok /\ it.res.err # ERR_IO
IsRecord(it) == it.some /\ it.res.ok

\* C7: next returns None exactly when the read it performed returned zero
\* bytes; every call performs one read, also after a parse error or a read
\* error.
C7_NoneIffZeroBytes ==
    /\ reads = calls
    /\ Len(items) = calls
    /\ calls > 0 => (~item.some <=> (lastRead.ok /\ lastRead.n = 0))
    /\ calls > 0 => (IsIoError(item) <=> ~lastRead.ok)

C7_Witness ==
    /\ calls = 3
    /\ IsParseError(items[1])
    /\ IsIoError(items[2])
    /\ IsRecord(items[3])
    /\ lastRead.ok /\ lastRead.n > 0

\* C8: once next has returned None, every later call returns None.
C8_EndIsTerminal == ended => ~item.some

FirstNone == CHOOSE k \in 1..Len(items) : ~items[k].some /\ \A j \in 1..(k - 1) : items[j].some

\* C10: when no read fails, the items next yields up to the end of the
\* stream are the results of Module::parse on the lines of str::lines.
C10_SameAsParseFromLines ==
    (ended /\ \A j \in 1..(FirstNone - 1) : ~IsIoError(items[j])) =>
        SubSeq(items, 1, FirstNone - 1)
            = [i \in 1..Len(StrLines(file)) |-> Some(Parse(StrLines(file)[i]))]

(***************************************************************************)
(* SpecAll: Module::all, ModuleIter::new()?.collect() into a Result.       *)
(***************************************************************************)
InitAll ==
    /\ InitFile
    /\ acc = <<>>
    /\ ret = NoRet
    /\ IdleParse /\ IdleBatch

\* ModuleIter::new()? : a failed open is returned at once
AllOpen ==
    /\ ~ret.set
    /\ \E ok \in BOOLEAN :
          /\ Open(ok)
          /\ ret' = IF ok THEN ret ELSE ErrV(ERR_OPEN)
    /\ UNCHANGED <<acc, parseVars, batchVars>>

\* a variant that drops the error items and goes on
AllPullSkipErrors ==
    /\ ~ret.set
    /\ IterStep
    /\ IF ~item'.some THEN acc' = <<>> /\ ret' = OkV(acc)
       ELSE IF item'.res.ok THEN acc' = Append(acc, item'.res.val) /\ ret' = ret
       ELSE acc' = acc /\ ret' = ret
    /\ UNCHANGED <<parseVars, batchVars>>

\* collect pulls one item: None ends it with the Vec, an Ok value is pushed,
\* an Err ends it with that error and the Vec is dropped
AllPull ==
    /\ ~ret.set
    /\ IterStep
    /\ IF ~item'.some THEN acc' = <<>> /\ ret' = OkV(acc)
       ELSE IF item'.res.ok THEN acc' = Append(acc, item'.res.val) /\ ret' = ret
       ELSE acc' = <<>> /\ ret' = ErrV(item'.res.err)
    /\ UNCHANGED <<parseVars, batchVars>>

NextAll == AllOpen \/ AllPull

SpecAll == InitAll /\ [][NextAll]_vars

IsError(it) == it.some /\ ~it.res.ok

\* C9: all returns the error of a failed open without reading; otherwise it
\* returns the records of all the lines of the file in order when every step
\* up to the end of the stream yields a record, or the first error item
\* (read error or parse error) and no records; the item that ends it, the
\* first error or None, is the last one it reads.
C9_AllFailFast ==
    /\ \A k \in 1..Len(items) :
          (IsError(items[k]) \/ ~items[k].some) => (k = Len(items) /\ ret.set)
    /\ reads = Len(items)
    /\ reads <= Len(rawlines) + 1
    /\ ret.set =>
          IF opened = "failed" THEN ret = ErrV(ERR_OPEN) /\ reads = 0
          ELSE IF ret.ok
          THEN /\ Len(items) = Len(rawlines) + 1
               /\ ~items[Len(items)].some
               /\ ret.val = [i \in 1..Len(rawlines) |-> items[i].res.val]
               /\ \A i \in 1..Len(rawlines) : items[i] = Some(Parse(rawlines[i]))
          ELSE /\ Len(items) > 0
               /\ IsError(items[Len(items)])
               /\ ret = ErrV(items[Len(items)].res.err)

C9_Witness ==
    /\ ret = ErrV(ERR_IO)
    /\ Len(items) = 2
    /\ IsRecord(items[1])
    /\ pos < Len(file)
    /\ reads = 2

====
